---- MODULE Spec2Model ----
(***************************************************************************)
(* Model of crypto/src/range_proof/generators.rs: the GeneratorsChain      *)
(* stream of Ristretto points squeezed from a Shake256 XOF, the            *)
(* BulletproofGens store with its two growable vectors G_vec and H_vec,    *)
(* and the GensIter view returned by BulletproofGens::G / ::H.             *)
(*                                                                         *)
(* Shake256 and RistrettoPoint::from_uniform_bytes are external crates.    *)
(* The XOF is kept symbolic: the bytes it squeezes are named by the        *)
(* absorbed input, the byte offset and the length read; the point is named *)
(* by the bytes it was mapped from.                                        *)
(***************************************************************************)
EXTENDS Integers, Sequences, FiniteSets, TLC

(* ------------------------------ bounds -------------------------------- *)

\* Largest capacity a caller asks for (new / increase_capacity argument).
MaxCapacity == 3

\* View lengths requested from G(n) / H(n) range over 0 .. MaxCapacity + ViewSlack,
\* so that requests beyond every reachable capacity occur.
ViewSlack == 1

\* Number of GensIter values that can be alive at the same time.
MaxViews == 1

\* Largest ordinal a free-standing GeneratorsChain is driven to.
MaxOrdinal == 3

(* ------------------------- program constants -------------------------- *)

\* b"GeneratorsChain"
GeneratorsChainTag ==
    <<71, 101, 110, 101, 114, 97, 116, 111, 114, 115, 67, 104, 97, 105, 110>>

\* b'G'
Byte_G == 71

\* b'H'
Byte_H == 72

\* [0u8; 64]: bytes squeezed for one point
UniformBytesLen == 64

(* --------------------- Shake256 / Sha3XofReader ----------------------- *)

\* Shake256::default(): nothing absorbed yet.
Shake256_default == << >>

\* shake.input(data): absorbs data after what was absorbed before.
Shake_input(shake, data) == shake \o data

\* shake.xof_result(): a reader at offset 0 of the output for what was absorbed.
Xof_result(shake) == [seed |-> shake, pos |-> 0]

\* The len output bytes of the XOF seeded by seed, from byte offset from.
XofBytes(seed, from, len) == [seed |-> seed, from |-> from, len |-> len]

\* reader.read(&mut buf) with buf of len bytes: the bytes read and the advanced reader.
Xof_read(reader, len) ==
    [ buf    |-> XofBytes(reader.seed, reader.pos, len),
      reader |-> [reader EXCEPT !.pos = reader.pos + len] ]

\* RistrettoPoint::from_uniform_bytes: total on 64-byte inputs.
FromUniformBytes(bytes) == [point |-> bytes]

(* ------------------------- GeneratorsChain ----------------------------- *)

\* GeneratorsChain::new(label)
GeneratorsChain_new(label) ==
    [ reader |-> Xof_result(Shake_input(Shake_input(Shake256_default,
                                                   GeneratorsChainTag), label)) ]

\* Variant: the loop body squeezes a buffer of half the size.
FastForwardStep_half(chain) ==
    [ reader |-> Xof_read(chain.reader, UniformBytesLen \div 2).reader ]

\* One iteration of the loop body of fast_forward: squeeze 64 bytes, discard.
FastForwardStep(chain) ==
    [ reader |-> Xof_read(chain.reader, UniformBytesLen).reader ]

\* GeneratorsChain::fast_forward(self, n): for _ in 0..n { read 64 bytes }.
RECURSIVE fast_forward(_, _)
fast_forward(chain, n) ==
    IF n <= 0 THEN chain ELSE fast_forward(FastForwardStep(chain), n - 1)

\* Variant: the buffer squeezed for a point has half the size.
Chain_next_half(chain) ==
    LET r == Xof_read(chain.reader, UniformBytesLen \div 2)
    IN  [ result |-> "Some",
          item   |-> FromUniformBytes(r.buf),
          chain  |-> [ reader |-> r.reader ] ]

\* Iterator::next for GeneratorsChain: always Some(point), reader advanced.
Chain_next(chain) ==
    LET r == Xof_read(chain.reader, UniformBytesLen)
    IN  [ result |-> "Some",
          item   |-> FromUniformBytes(r.buf),
          chain  |-> [ reader |-> r.reader ] ]

\* Iterator::take(k) driven to exhaustion: the k next items, in order.
RECURSIVE Take(_, _)
Take(chain, k) ==
    IF k <= 0 THEN << >>
    ELSE LET r == Chain_next(chain)
         IN  <<r.item>> \o Take(r.chain, k - 1)

(* --------------------------- BulletproofGens --------------------------- *)

\* The labels of the two families: [label, [b'G']].concat() and
\* [label, [b'H']].concat() with label = [b'G'].
BaseLabel == <<Byte_G>>
Label_G == BaseLabel \o <<Byte_G>>
\* Variant: the H family is labelled with the family byte of G.
Label_H_asG == BaseLabel \o <<Byte_G>>

Label_H == BaseLabel \o <<Byte_H>>

\* The struct literal in BulletproofGens::new.
EmptyGens == [gens_capacity |-> 0, G_vec |-> << >>, H_vec |-> << >>]

\* Variant: the early return is missing.
NoGrowthNeeded_never(gens_capacity_, new_capacity_) == FALSE

\* Variant: the early return is taken only when the capacity is strictly larger.
NoGrowthNeeded_strict(gens_capacity_, new_capacity_) == gens_capacity_ > new_capacity_

\* The early return of increase_capacity.
NoGrowthNeeded(gens_capacity_, new_capacity_) == gens_capacity_ >= new_capacity_

\* Variant: the items are inserted before the elements already there.
Extend_front(vec, items) == items \o vec

\* Vec::extend: the items are pushed after the elements already there.
Extend(vec, items) == vec \o items

\* Variant: G_vec is assigned the collected items instead of being extended.
ExtendG_regen(gens, new_capacity_) ==
    [gens EXCEPT !.G_vec =
        Take(fast_forward(GeneratorsChain_new(Label_G), gens.gens_capacity),
             new_capacity_ - gens.gens_capacity)]

\* self.G_vec.extend(GeneratorsChain::new(..G).fast_forward(cap).take(new - cap))
ExtendG(gens, new_capacity_) ==
    [gens EXCEPT !.G_vec =
        Extend(gens.G_vec,
               Take(fast_forward(GeneratorsChain_new(Label_G), gens.gens_capacity),
                    new_capacity_ - gens.gens_capacity))]

\* Variant: the H chain is not fast-forwarded past the elements already stored.
ExtendH_noskip(gens, new_capacity_) ==
    [gens EXCEPT !.H_vec =
        Extend(gens.H_vec,
               Take(GeneratorsChain_new(Label_H),
                    new_capacity_ - gens.gens_capacity))]

\* Variant: the H chain is asked for new_capacity elements, not for the difference.
ExtendH_takeall(gens, new_capacity_) ==
    [gens EXCEPT !.H_vec =
        Extend(gens.H_vec,
               Take(fast_forward(GeneratorsChain_new(Label_H), gens.gens_capacity),
                    new_capacity_))]

\* self.H_vec.extend(GeneratorsChain::new(..H).fast_forward(cap).take(new - cap))
ExtendH(gens, new_capacity_) ==
    [gens EXCEPT !.H_vec =
        Extend(gens.H_vec,
               Take(fast_forward(GeneratorsChain_new(Label_H), gens.gens_capacity),
                    new_capacity_ - gens.gens_capacity))]

\* Variant: the capacity is set to the number of elements appended.
SetCapacity_delta(gens, new_capacity_) ==
    [gens EXCEPT !.gens_capacity = new_capacity_ - gens.gens_capacity]

\* self.gens_capacity = new_capacity
SetCapacity(gens, new_capacity_) == [gens EXCEPT !.gens_capacity = new_capacity_]

\* BulletproofGens::increase_capacity, start to return.
IncreaseCapacityOp(gens, new_capacity_) ==
    IF NoGrowthNeeded(gens.gens_capacity, new_capacity_)
    THEN gens
    ELSE SetCapacity(ExtendH(ExtendG(gens, new_capacity_), new_capacity_),
                     new_capacity_)

\* Variant: the struct literal takes the argument as its capacity and nothing is derived.
BulletproofGens_new_skip(capacity) == [EmptyGens EXCEPT !.gens_capacity = capacity]

\* BulletproofGens::new(gens_capacity)
BulletproofGens_new(capacity) == IncreaseCapacityOp(EmptyGens, capacity)

(* ------------------------------ GensIter ------------------------------- *)

\* The vector a GensIter borrows: &self.G_vec or &self.H_vec.
ArrayOf(gens, array) == IF array = "G_vec" THEN gens.G_vec ELSE gens.H_vec

\* The struct literal in BulletproofGens::G / ::H.
GensIter_new(array, n) == [array |-> array, n |-> n, gen_idx |-> 0]

\* Variant: the element is read at gen_idx after it was advanced.
GensIter_next_skipfirst(iter, vec) ==
    IF iter.gen_idx >= iter.n
    THEN [iter |-> iter, result |-> "None", item |-> << >>]
    ELSE LET advanced == [iter EXCEPT !.gen_idx = iter.gen_idx + 1]
         IN  IF advanced.gen_idx < Len(vec)
             THEN [iter |-> advanced, result |-> "Some",
                   item |-> <<vec[advanced.gen_idx + 1]>>]
             ELSE [iter |-> advanced, result |-> "panic", item |-> << >>]

\* Variant: the view stops at the end of the vector as well as at n.
GensIter_next_truncating(iter, vec) ==
    IF iter.gen_idx >= iter.n \/ iter.gen_idx >= Len(vec)
    THEN [iter |-> iter, result |-> "None", item |-> << >>]
    ELSE [iter |-> [iter EXCEPT !.gen_idx = iter.gen_idx + 1], result |-> "Some",
          item |-> <<vec[iter.gen_idx + 1]>>]

\* Variant: the end of the view is tested with > instead of >=.
GensIter_next_offbyone(iter, vec) ==
    IF iter.gen_idx > iter.n
    THEN [iter |-> iter, result |-> "None", item |-> << >>]
    ELSE LET cur_gen == iter.gen_idx
             advanced == [iter EXCEPT !.gen_idx = iter.gen_idx + 1]
         IN  IF cur_gen < Len(vec)
             THEN [iter |-> advanced, result |-> "Some", item |-> <<vec[cur_gen + 1]>>]
             ELSE [iter |-> advanced, result |-> "panic", item |-> << >>]

\* Iterator::next for GensIter on the borrowed vector vec (0-based index cur_gen).
\* result "None": end of the view; "Some": item; "panic": vec[cur_gen] is out of
\* bounds (the index expression aborts after gen_idx was advanced).
GensIter_next(iter, vec) ==
    IF iter.gen_idx >= iter.n
    THEN [iter |-> iter, result |-> "None", item |-> << >>]
    ELSE LET cur_gen == iter.gen_idx
             advanced == [iter EXCEPT !.gen_idx = iter.gen_idx + 1]
         IN  IF cur_gen < Len(vec)
             THEN [iter |-> advanced, result |-> "Some", item |-> <<vec[cur_gen + 1]>>]
             ELSE [iter |-> advanced, result |-> "panic", item |-> << >>]

\* Iterator::size_hint for GensIter.
GensIter_size_hint(iter) == iter.n - iter.gen_idx

(* ------------------------------- state --------------------------------- *)

VARIABLES
    gens_capacity,  \* BulletproofGens.gens_capacity
    G_vec,          \* BulletproofGens.G_vec
    H_vec,          \* BulletproofGens.H_vec
    inc,            \* the increase_capacity call in progress: its position and argument
    views,          \* the GensIter values alive, with what each has returned so far
    hist,           \* the capacities the store has had, oldest first
    last_op,        \* the last call made on the store or on a view
    chains,         \* free-standing GeneratorsChain values, with what each has returned
    requested,      \* the largest capacity asked for so far (new and increase_capacity)
    call            \* increase_capacity run loop iteration by loop iteration

store == <<gens_capacity, G_vec, H_vec>>
vars == <<gens_capacity, G_vec, H_vec, inc, views, hist, last_op, chains, requested, call>>

\* The store as one value.
Gens == [gens_capacity |-> gens_capacity, G_vec |-> G_vec, H_vec |-> H_vec]

Capacities == 0 .. MaxCapacity
ViewLens   == 0 .. (MaxCapacity + ViewSlack)
ViewIds    == 1 .. MaxViews
ChainIds   == {"a", "b"}

Max(a, b) == IF a >= b THEN a ELSE b

\* No loop-by-loop increase_capacity call was made yet.
\* chain, i and take_n are the call's locals (the GeneratorsChain, the position of
\* fast_forward's loop, the count left in Take); the other fields record what the call did:
\* the capacity at entry, the value of new_capacity - gens_capacity evaluated for each
\* family (0: not evaluated), and the number of loop iterations and of elements drawn.
NoCall == [pc |-> "idle", new_capacity |-> 0, old_capacity |-> 0,
           chain |-> GeneratorsChain_new(<< >>), i |-> 0, take_n |-> 0,
           sub_G |-> 0, sub_H |-> 0,
           ff_G |-> 0, ff_H |-> 0, drawn_G |-> 0, drawn_H |-> 0]

\* No increase_capacity call is in progress.
Idle == [pc |-> "idle", new_capacity |-> 0, before |-> EmptyGens]

\* A view slot that holds no GensIter.
NoView == [iter |-> GensIter_new("G_vec", 0), status |-> "none", out |-> << >>,
           seen |-> {}]

\* A chain slot that holds no GeneratorsChain.
NoChain == [chain |-> GeneratorsChain_new(<< >>), status |-> "none", label |-> << >>,
            ord |-> 0, skipped |-> 0, out |-> << >>]

\* The labels free-standing chains are built from: Default (empty) and the store's two.
Labels == { << >>, Label_G, Label_H }

Init ==
    /\ \E c \in Capacities :
         /\ gens_capacity = BulletproofGens_new(c).gens_capacity
         /\ G_vec = BulletproofGens_new(c).G_vec
         /\ H_vec = BulletproofGens_new(c).H_vec
         /\ hist = <<BulletproofGens_new(c).gens_capacity>>
         /\ last_op = [op |-> "new", arg |-> c]
    /\ inc = Idle
    /\ views = [v \in ViewIds |-> NoView]
    /\ chains = [c \in ChainIds |-> NoChain]
    /\ requested = last_op.arg
    /\ call = NoCall

(* ------------------------- store operations ---------------------------- *)

\* A shared borrow of the store is held by every GensIter that is alive.
Borrowed == \E v \in ViewIds : views[v].status # "none"

\* gens.increase_capacity(new_capacity) as one call (&mut self: no view alive).
increase_capacity(new_capacity) ==
    /\ inc.pc = "idle"
    /\ ~Borrowed
    /\ LET after == IncreaseCapacityOp(Gens, new_capacity)
       IN  /\ gens_capacity' = after.gens_capacity
           /\ G_vec' = after.G_vec
           /\ H_vec' = after.H_vec
           /\ hist' = IF after.gens_capacity # gens_capacity
                      THEN Append(hist, after.gens_capacity) ELSE hist
    /\ last_op' = [op |-> "increase_capacity", arg |-> new_capacity]
    /\ UNCHANGED <<inc, views, chains>>
    /\ requested' = Max(requested, new_capacity)
    /\ UNCHANGED call

\* The stores a view may be compared with: the store when the view was made, and
\* when a growth is in progress, the store before it and the store after it.
StableStores ==
    IF inc.pc = "idle" THEN {Gens}
    ELSE {inc.before, IncreaseCapacityOp(inc.before, inc.new_capacity)}

\* Variant: the accessor grows the store to n before it makes the view.
G_growing(v, n) ==
    /\ views[v].status = "none"
    /\ gens_capacity' = IncreaseCapacityOp(Gens, n).gens_capacity
    /\ G_vec' = IncreaseCapacityOp(Gens, n).G_vec
    /\ H_vec' = IncreaseCapacityOp(Gens, n).H_vec
    /\ views' = [views EXCEPT ![v] =
           [iter |-> GensIter_new("G_vec", n), status |-> "live", out |-> << >>,
            seen |-> {IncreaseCapacityOp(Gens, n)}]]
    /\ last_op' = [op |-> "G", arg |-> n]
    /\ UNCHANGED <<inc, hist, chains>>
    /\ UNCHANGED <<requested, call>>

\* gens.G(n): a GensIter over &self.G_vec.
G(v, n) ==
    /\ views[v].status = "none"
    /\ views' = [views EXCEPT ![v] =
           [iter |-> GensIter_new("G_vec", n), status |-> "live", out |-> << >>,
            seen |-> StableStores]]
    /\ last_op' = [op |-> "G", arg |-> n]
    /\ UNCHANGED <<gens_capacity, G_vec, H_vec, inc, hist, chains>>
    /\ UNCHANGED <<requested, call>>

\* gens.H(n): a GensIter over &self.H_vec.
H(v, n) ==
    /\ views[v].status = "none"
    /\ views' = [views EXCEPT ![v] =
           [iter |-> GensIter_new("H_vec", n), status |-> "live", out |-> << >>,
            seen |-> StableStores]]
    /\ last_op' = [op |-> "H", arg |-> n]
    /\ UNCHANGED <<gens_capacity, G_vec, H_vec, inc, hist, chains>>
    /\ UNCHANGED <<requested, call>>

\* view.next() on a GensIter that is alive (a panicked view is unwound: no more calls).
ViewNext(v) ==
    /\ views[v].status \in {"live", "end"}
    /\ LET r == GensIter_next(views[v].iter, ArrayOf(Gens, views[v].iter.array))
       IN  views' = [views EXCEPT ![v] =
               [iter   |-> r.iter,
                status |-> IF r.result = "None" THEN "end"
                           ELSE IF r.result = "panic" THEN "fault"
                           ELSE "live",
                out    |-> views[v].out \o r.item,
                seen   |-> views[v].seen]]
    /\ last_op' = [op |-> "next", arg |-> 0]
    /\ UNCHANGED <<gens_capacity, G_vec, H_vec, inc, hist, chains>>
    /\ UNCHANGED <<requested, call>>

\* view.size_hint() on a GensIter that is alive: the value of n - gen_idx.
ViewSizeHint(v) ==
    /\ views[v].status \in {"live", "end"}
    /\ last_op' = [op |-> "size_hint", arg |-> GensIter_size_hint(views[v].iter)]
    /\ UNCHANGED <<gens_capacity, G_vec, H_vec, inc, views, hist, chains>>
    /\ UNCHANGED <<requested, call>>

\* The GensIter goes out of scope (or is unwound): its borrow ends.
ViewDrop(v) ==
    /\ views[v].status # "none"
    /\ views' = [views EXCEPT ![v] = NoView]
    /\ last_op' = [op |-> "drop", arg |-> 0]
    /\ UNCHANGED <<gens_capacity, G_vec, H_vec, inc, hist, chains>>
    /\ UNCHANGED <<requested, call>>

Next ==
    \/ \E c \in Capacities : increase_capacity(c)
    \/ \E v \in ViewIds, n \in ViewLens : G(v, n)
    \/ \E v \in ViewIds, n \in ViewLens : H(v, n)
    \/ \E v \in ViewIds : ViewNext(v)
    \/ \E v \in ViewIds : ViewSizeHint(v)
    \/ \E v \in ViewIds : ViewDrop(v)

Spec == Init /\ [][Next]_vars

(* ------------------- increase_capacity, statement by statement --------- *)

\* The views alive when a growth starts may be compared with the store after it too.
SeeAlso(after) ==
    [v \in ViewIds |->
        IF views[v].status = "none" THEN views[v]
        ELSE [views[v] EXCEPT !.seen = views[v].seen \cup {after}]]

\* Entry of increase_capacity(new_capacity): the early return, or on to the extends.
IncBegin(new_capacity) ==
    /\ inc.pc = "idle"
    /\ last_op' = [op |-> "increase_capacity", arg |-> new_capacity]
    /\ IF NoGrowthNeeded(gens_capacity, new_capacity)
       THEN UNCHANGED <<inc, views>>
       ELSE /\ inc' = [pc |-> "extend_G", new_capacity |-> new_capacity,
                       before |-> Gens]
            /\ views' = SeeAlso(IncreaseCapacityOp(Gens, new_capacity))
    /\ UNCHANGED <<gens_capacity, G_vec, H_vec, hist, chains>>
    /\ requested' = Max(requested, new_capacity)
    /\ UNCHANGED call

\* Variant: the extend is visible one pushed element at a time.
IncExtendG_partial ==
    /\ inc.pc = "extend_G"
    /\ G_vec' = Extend(G_vec, Take(fast_forward(GeneratorsChain_new(Label_G),
                                                Len(G_vec)), 1))
    /\ inc' = [inc EXCEPT !.pc = IF Len(G_vec) + 1 >= inc.new_capacity
                                 THEN "extend_H" ELSE "extend_G"]
    /\ UNCHANGED <<gens_capacity, H_vec, views, hist, last_op, chains>>
    /\ UNCHANGED <<requested, call>>

\* Variant: the capacity is written together with the first extend.
IncExtendG_publish ==
    /\ inc.pc = "extend_G"
    /\ G_vec' = ExtendG(Gens, inc.new_capacity).G_vec
    /\ gens_capacity' = SetCapacity(Gens, inc.new_capacity).gens_capacity
    /\ inc' = [inc EXCEPT !.pc = "extend_H"]
    /\ UNCHANGED <<H_vec, views, hist, last_op, chains, requested, call>>

\* self.G_vec.extend(..)
IncExtendG ==
    /\ inc.pc = "extend_G"
    /\ G_vec' = ExtendG(Gens, inc.new_capacity).G_vec
    /\ inc' = [inc EXCEPT !.pc = "extend_H"]
    /\ UNCHANGED <<gens_capacity, H_vec, views, hist, last_op, chains>>
    /\ UNCHANGED <<requested, call>>

\* self.H_vec.extend(..)
IncExtendH ==
    /\ inc.pc = "extend_H"
    /\ H_vec' = ExtendH(Gens, inc.new_capacity).H_vec
    /\ inc' = [inc EXCEPT !.pc = "set_capacity"]
    /\ UNCHANGED <<gens_capacity, G_vec, views, hist, last_op, chains>>
    /\ UNCHANGED <<requested, call>>

\* self.gens_capacity = new_capacity, and return.
IncSetCapacity ==
    /\ inc.pc = "set_capacity"
    /\ gens_capacity' = SetCapacity(Gens, inc.new_capacity).gens_capacity
    /\ hist' = Append(hist, SetCapacity(Gens, inc.new_capacity).gens_capacity)
    /\ inc' = Idle
    /\ UNCHANGED <<G_vec, H_vec, views, last_op, chains>>
    /\ UNCHANGED <<requested, call>>

\* The view slot of the reader that runs next to increase_capacity.
ReaderIds == {1}

\* A reader makes and consumes views while increase_capacity runs statement by statement.
NextConc ==
    \/ \E c \in Capacities : IncBegin(c)
    \/ IncExtendG
    \/ IncExtendH
    \/ IncSetCapacity
    \/ \E v \in ReaderIds, n \in ViewLens : G(v, n)
    \/ \E v \in ReaderIds, n \in ViewLens : H(v, n)
    \/ \E v \in ReaderIds : ViewNext(v)
    \/ \E v \in ReaderIds : ViewDrop(v)

SpecConc == Init /\ [][NextConc]_vars

(* ---------------------- free-standing GeneratorsChain ------------------ *)

\* Variant: the new chain keeps reading where the value it replaces had got to.
ChainNew_reuse(c, label) ==
    /\ chains' = [chains EXCEPT ![c] =
           [chain |-> [reader |-> [GeneratorsChain_new(label).reader EXCEPT
                                       !.pos = chains[c].chain.reader.pos]],
            status |-> "live", label |-> label,
            ord |-> 0, skipped |-> 0, out |-> << >>]]
    /\ UNCHANGED <<gens_capacity, G_vec, H_vec, inc, views, hist, last_op>>
    /\ UNCHANGED <<requested, call>>

\* let chain = GeneratorsChain::new(label)
ChainNew(c, label) ==
    /\ chains' = [chains EXCEPT ![c] =
           [chain |-> GeneratorsChain_new(label), status |-> "live", label |-> label,
            ord |-> 0, skipped |-> 0, out |-> << >>]]
    /\ UNCHANGED <<gens_capacity, G_vec, H_vec, inc, views, hist, last_op>>
    /\ UNCHANGED <<requested, call>>

\* chain = chain.fast_forward(n)
ChainFastForward(c, n) ==
    /\ chains[c].status = "live"
    /\ chains[c].ord + n <= MaxOrdinal
    /\ chains' = [chains EXCEPT ![c] =
           [@ EXCEPT !.chain = fast_forward(chains[c].chain, n),
                     !.ord = @ + n,
                     !.skipped = @ + n]]
    /\ UNCHANGED <<gens_capacity, G_vec, H_vec, inc, views, hist, last_op>>
    /\ UNCHANGED <<requested, call>>

\* chain.next(): always Some(point)
ChainNext(c) ==
    /\ chains[c].status = "live"
    /\ chains[c].ord < MaxOrdinal
    /\ LET r == Chain_next(chains[c].chain)
       IN  chains' = [chains EXCEPT ![c] =
               [@ EXCEPT !.chain = r.chain,
                         !.ord = @ + 1,
                         !.out = Append(@, [ord |-> chains[c].ord, item |-> r.item])]]
    /\ UNCHANGED <<gens_capacity, G_vec, H_vec, inc, views, hist, last_op>>
    /\ UNCHANGED <<requested, call>>

NextChain ==
    \/ \E c \in ChainIds, label \in Labels : ChainNew(c, label)
    \/ \E c \in ChainIds, n \in 1 .. MaxOrdinal : ChainFastForward(c, n)
    \/ \E c \in ChainIds : ChainNext(c)

SpecChain == Init /\ [][NextChain]_vars

(* ------------------- increase_capacity, loop by loop ------------------- *)

\* Entry of increase_capacity(new_capacity): the early return, or
\* GeneratorsChain::new for the G family and on to fast_forward.
LoopBegin(new_capacity) ==
    /\ call.pc = "idle"
    /\ inc.pc = "idle"
    /\ ~Borrowed
    /\ last_op' = [op |-> "increase_capacity", arg |-> new_capacity]
    /\ requested' = Max(requested, new_capacity)
    /\ call' = IF NoGrowthNeeded(gens_capacity, new_capacity)
               THEN [NoCall EXCEPT !.new_capacity = new_capacity,
                                   !.old_capacity = gens_capacity]
               ELSE [NoCall EXCEPT !.pc = "ff_G",
                                   !.new_capacity = new_capacity,
                                   !.old_capacity = gens_capacity,
                                   !.chain = GeneratorsChain_new(Label_G)]
    /\ UNCHANGED <<gens_capacity, G_vec, H_vec, inc, views, hist, chains>>

\* Variant: the loop of fast_forward runs over 0..=n.
LoopFastForward_inclusive ==
    /\ call.pc \in {"ff_G", "ff_H"}
    /\ call' =
         IF call.i <= gens_capacity
         THEN [call EXCEPT !.chain = FastForwardStep(call.chain),
                           !.i = @ + 1,
                           !.ff_G = IF call.pc = "ff_G" THEN @ + 1 ELSE @,
                           !.ff_H = IF call.pc = "ff_H" THEN @ + 1 ELSE @]
         ELSE [call EXCEPT !.pc = IF call.pc = "ff_G" THEN "take_G" ELSE "take_H",
                           !.take_n = call.new_capacity - gens_capacity,
                           !.sub_G = IF call.pc = "ff_G"
                                     THEN call.new_capacity - gens_capacity ELSE @,
                           !.sub_H = IF call.pc = "ff_H"
                                     THEN call.new_capacity - gens_capacity ELSE @]
    /\ UNCHANGED <<gens_capacity, G_vec, H_vec, inc, views, hist, last_op, chains,
                   requested>>

\* .fast_forward(self.gens_capacity): one pass of `for _ in 0..n`, or its exit to
\* .take(new_capacity - self.gens_capacity), where the subtraction is evaluated.
LoopFastForward ==
    /\ call.pc \in {"ff_G", "ff_H"}
    /\ call' =
         IF call.i < gens_capacity
         THEN [call EXCEPT !.chain = FastForwardStep(call.chain),
                           !.i = @ + 1,
                           !.ff_G = IF call.pc = "ff_G" THEN @ + 1 ELSE @,
                           !.ff_H = IF call.pc = "ff_H" THEN @ + 1 ELSE @]
         ELSE [call EXCEPT !.pc = IF call.pc = "ff_G" THEN "take_G" ELSE "take_H",
                           !.take_n = call.new_capacity - gens_capacity,
                           !.sub_G = IF call.pc = "ff_G"
                                     THEN call.new_capacity - gens_capacity ELSE @,
                           !.sub_H = IF call.pc = "ff_H"
                                     THEN call.new_capacity - gens_capacity ELSE @]
    /\ UNCHANGED <<gens_capacity, G_vec, H_vec, inc, views, hist, last_op, chains,
                   requested>>

\* Vec::extend pulling from Take: one element pushed while Take's count is not 0,
\* else on to the H family (GeneratorsChain::new, fast_forward) or to the assignment.
LoopTake ==
    /\ call.pc \in {"take_G", "take_H"}
    /\ IF call.take_n # 0
       THEN LET r == Chain_next(call.chain) IN
            /\ call' = [call EXCEPT !.chain = r.chain,
                                    !.take_n = @ - 1,
                                    !.drawn_G = IF call.pc = "take_G" THEN @ + 1 ELSE @,
                                    !.drawn_H = IF call.pc = "take_H" THEN @ + 1 ELSE @]
            /\ G_vec' = IF call.pc = "take_G" THEN Extend(G_vec, <<r.item>>) ELSE G_vec
            /\ H_vec' = IF call.pc = "take_H" THEN Extend(H_vec, <<r.item>>) ELSE H_vec
       ELSE /\ call' = IF call.pc = "take_G"
                       THEN [call EXCEPT !.pc = "ff_H", !.i = 0,
                                         !.chain = GeneratorsChain_new(Label_H)]
                       ELSE [call EXCEPT !.pc = "set_capacity"]
            /\ UNCHANGED <<G_vec, H_vec>>
    /\ UNCHANGED <<gens_capacity, inc, views, hist, last_op, chains, requested>>

\* self.gens_capacity = new_capacity, and return.
LoopSetCapacity ==
    /\ call.pc = "set_capacity"
    /\ gens_capacity' = SetCapacity(Gens, call.new_capacity).gens_capacity
    /\ hist' = Append(hist, SetCapacity(Gens, call.new_capacity).gens_capacity)
    /\ call' = [call EXCEPT !.pc = "idle"]
    /\ UNCHANGED <<G_vec, H_vec, inc, views, last_op, chains, requested>>

\* The body of a call that was entered: it runs on, nothing suspends it.
LoopStep == LoopFastForward \/ LoopTake \/ LoopSetCapacity

NextLoop ==
    \/ \E c \in Capacities : LoopBegin(c)
    \/ LoopFastForward
    \/ LoopTake
    \/ LoopSetCapacity

SpecLoop == Init /\ [][NextLoop]_vars /\ WF_vars(LoopStep)

(* ------------------------------ helpers -------------------------------- *)

Min(a, b) == IF a <= b THEN a ELSE b

\* The first k elements of a sequence.
Prefix(seq, k) == SubSeq(seq, 1, Min(k, Len(seq)))

\* The vector view v borrows, as it is now.
VecOf(v) == ArrayOf(Gens, views[v].iter.array)

(* ------------------------------- claims -------------------------------- *)

\* C1 (as amended): a view G(n) / H(n) has, at every moment, returned the elements of
\* its vector at indices 0 .. gen_idx-1 in index order, each once. It reports the end
\* only when n <= gens_capacity, after exactly the first n elements; when
\* n > gens_capacity it returns the gens_capacity stored elements and the call after
\* them aborts on the out-of-bounds index instead of reporting the end.
C1_ViewYieldsPrefixOrAborts ==
    \A v \in ViewIds :
        LET w == views[v] IN
        /\ w.status = "live" =>
              /\ w.iter.gen_idx <= Min(w.iter.n, gens_capacity)
              /\ w.out = Prefix(VecOf(v), w.iter.gen_idx)
        /\ w.status = "end" =>
              /\ w.iter.n <= gens_capacity
              /\ w.out = Prefix(VecOf(v), w.iter.n)
        /\ w.status = "fault" =>
              /\ w.iter.n > gens_capacity
              /\ w.out = VecOf(v)
              /\ Len(w.out) = gens_capacity

\* C1 witness: a view asked for more than the capacity returned every stored element
\* (at least two) and then aborted.
C1_Witness ==
    \E v \in ViewIds :
        /\ views[v].status = "fault"
        /\ views[v].iter.n > gens_capacity
        /\ Len(views[v].out) >= 2

\* C1 as stated: a view that was iterated to its finish returned exactly the first
\* min(n, gens_capacity) elements and then reported the end.
C1_ViewTruncates ==
    \A v \in ViewIds :
        views[v].status \in {"end", "fault"} =>
            /\ views[v].status = "end"
            /\ views[v].out = Prefix(VecOf(v), Min(views[v].iter.n, gens_capacity))

\* C2 (as amended): asking for a view with n > gens_capacity is accepted when the view
\* is made and leaves the store as it was, but the view does not truncate: it never
\* reports the end; next() returns the gens_capacity stored elements and the call
\* after them aborts (index out of bounds) with gen_idx = gens_capacity + 1.
C2_OverCapacityViewAborts ==
    \A v \in ViewIds :
        LET w == views[v] IN
        (w.status # "none" /\ w.iter.n > gens_capacity) =>
            /\ w.seen = {Gens}
            /\ w.status # "end"
            /\ w.status = "live" => w.iter.gen_idx <= gens_capacity
            /\ w.status = "fault" =>
                  /\ w.iter.gen_idx = gens_capacity + 1
                  /\ Len(w.out) = gens_capacity

\* C2 witness: next() aborted on a view asked for more than the capacity of a
\* non-empty store.
C2_Witness ==
    \E v \in ViewIds :
        /\ views[v].iter.n > gens_capacity
        /\ views[v].status = "fault"
        /\ gens_capacity >= 1
        /\ last_op.op = "next"

\* C2 as stated: no call to next() on a view with n > gens_capacity ever faults.
C2_OverCapacityNeverFaults ==
    \A v \in ViewIds :
        views[v].iter.n > gens_capacity => views[v].status # "fault"

\* C3: after the store grew to m and then to n > m, the first m elements of G_vec and
\* of H_vec are, position by position, the first m elements that one
\* increase_capacity(n) on a fresh store produces.
C3_PrefixStability ==
    LET direct == IncreaseCapacityOp(EmptyGens, gens_capacity) IN
    \A j \in 1 .. (Len(hist) - 1) :
        /\ hist[j] < gens_capacity
        /\ \A i \in 1 .. hist[j] :
              /\ G_vec[i] = direct.G_vec[i]
              /\ H_vec[i] = direct.H_vec[i]

\* C3 witness: the store grew to m >= 1 and then to n > m.
C3_Witness ==
    /\ Len(hist) >= 2
    /\ hist[Len(hist) - 1] >= 1
    /\ hist[Len(hist)] = gens_capacity
    /\ hist[Len(hist) - 1] < gens_capacity

\* C4: no step changes or moves an element of G_vec or H_vec that was already
\* written; a step can only add elements after them.
C4_AppendOnly ==
    [][ /\ Len(G_vec') >= Len(G_vec)
        /\ SubSeq(G_vec', 1, Len(G_vec)) = G_vec
        /\ Len(H_vec') >= Len(H_vec)
        /\ SubSeq(H_vec', 1, Len(H_vec)) = H_vec ]_vars

\* C4 witness: a non-empty store grew, and a view then read the whole of a vector.
C4_Witness ==
    /\ Len(hist) >= 2
    /\ hist[Len(hist) - 1] >= 1
    /\ \E v \in ViewIds :
          /\ views[v].status = "end"
          /\ views[v].iter.n = gens_capacity

\* C5: a call increase_capacity(target) with target <= gens_capacity leaves
\* gens_capacity, G_vec and H_vec unchanged.
C5_NoOpWhenNotAbove ==
    [][ (last_op'.op = "increase_capacity" /\ last_op'.arg <= gens_capacity)
            => UNCHANGED <<gens_capacity, G_vec, H_vec>> ]_vars

\* C5 witness: the last call was increase_capacity with a positive target below the
\* capacity.
C5_Witness ==
    /\ last_op.op = "increase_capacity"
    /\ last_op.arg >= 1
    /\ last_op.arg < gens_capacity

\* C8: gens_capacity never decreases from one state to the next.
C8_CapacityMonotone ==
    [][ gens_capacity' >= gens_capacity ]_vars

\* C8 witness: the capacity was changed twice since construction.
C8_Witness ==
    /\ Len(hist) >= 3
    /\ gens_capacity > hist[1]

\* C9: making a view with G(n) or H(n), for any n, and calling next() on it leave
\* gens_capacity, G_vec and H_vec unchanged.
C9_AccessorsNeverGrow ==
    [][ (last_op'.op \in {"G", "H", "next"})
            => UNCHANGED <<gens_capacity, G_vec, H_vec>> ]_vars

\* C9 witness: a view asked for more than the capacity has returned every stored
\* element and is still alive.
C9_Witness ==
    \E v \in ViewIds :
        /\ views[v].iter.n > gens_capacity
        /\ views[v].status = "live"
        /\ gens_capacity >= 1
        /\ Len(views[v].out) = gens_capacity
        /\ last_op.op = "next"

(* ----------------------------- chain claims ---------------------------- *)

C7_FastForwardIsSkipping ==
    \A a \in ChainIds, b \in ChainIds :
        ( /\ chains[a].status = "live" /\ chains[b].status = "live"
          /\ chains[a].label = chains[b].label
          /\ chains[a].skipped = 0 ) =>
            /\ chains[a].ord = chains[b].ord => chains[a].chain = chains[b].chain
            /\ \A j \in 1 .. Len(chains[b].out) :
                   chains[b].out[j].ord < Len(chains[a].out) =>
                       chains[b].out[j].item = chains[a].out[chains[b].out[j].ord + 1].item

\* C7 witness: chain b was built, fast-forwarded by 2 and asked for one element;
\* chain a, from the same label, was asked for three.
C7_Witness ==
    /\ chains["a"].status = "live" /\ chains["b"].status = "live"
    /\ chains["a"].label = chains["b"].label
    /\ chains["a"].skipped = 0 /\ Len(chains["a"].out) = 3
    /\ chains["b"].skipped = 2 /\ Len(chains["b"].out) = 1
    /\ chains["b"].out[1].ord = 2

(* -------------------------- concurrent readers ------------------------- *)

\* Iterating GensIter{array, n, gen_idx: 0} to its finish over a store that does
\* not change: what it returns and how it finishes.
RECURSIVE Run(_, _, _)
Run(iter, vec, out) ==
    LET r == GensIter_next(iter, vec) IN
    IF r.result = "None" THEN [out |-> out, status |-> "end"]
    ELSE IF r.result = "panic" THEN [out |-> out, status |-> "fault"]
    ELSE Run(r.iter, vec, out \o r.item)

RunOn(gens, array, n) == Run(GensIter_new(array, n), ArrayOf(gens, array), << >>)

IsPrefix(p, q) == Len(p) <= Len(q) /\ p = SubSeq(q, 1, Len(p))

SeedOf(label) == GeneratorsChain_new(label).reader.seed

\* The first k elements a fresh chain built from label returns.
FreshStream(label, k) == Take(GeneratorsChain_new(label), k)

\* C11: the XOF of the G family is seeded with "GeneratorsChain", the label byte and
\* 'G', that of the H family with "GeneratorsChain", the label byte and 'H'; the two
\* seeds differ, every stored element comes from the seed of its family, G_vec[i]
\* differs from H_vec[i] at every index, and all stored elements are pairwise
\* distinct within each family and across the two.
C11_FamilySeparation ==
    /\ SeedOf(Label_G) = GeneratorsChainTag \o BaseLabel \o <<Byte_G>>
    /\ SeedOf(Label_H) = GeneratorsChainTag \o BaseLabel \o <<Byte_H>>
    /\ SeedOf(Label_G) # SeedOf(Label_H)
    /\ \A i \in 1 .. Len(G_vec) : G_vec[i].point.seed = SeedOf(Label_G)
    /\ \A i \in 1 .. Len(H_vec) : H_vec[i].point.seed = SeedOf(Label_H)
    /\ \A i \in 1 .. Min(Len(G_vec), Len(H_vec)) : G_vec[i] # H_vec[i]
    /\ \A i \in 1 .. Len(G_vec), j \in 1 .. Len(H_vec) : G_vec[i] # H_vec[j]
    /\ \A i \in 1 .. Len(G_vec), j \in 1 .. Len(G_vec) : i # j => G_vec[i] # G_vec[j]
    /\ \A i \in 1 .. Len(H_vec), j \in 1 .. Len(H_vec) : i # j => H_vec[i] # H_vec[j]

\* C11 witness: both families hold at least two elements, appended by two growths.
C11_Witness ==
    /\ Len(G_vec) >= 2
    /\ Len(H_vec) >= 2
    /\ Len(hist) >= 2
    /\ hist[1] >= 1

\* C12: after any sequence of increase_capacity calls on a store made by new(c0),
\* gens_capacity is the largest of c0 and all the targets, and G_vec and H_vec hold,
\* index by index, what a fresh chain of their family returns.
C12_PathIndependence ==
    /\ gens_capacity = requested
    /\ G_vec = FreshStream(Label_G, gens_capacity)
    /\ H_vec = FreshStream(Label_H, gens_capacity)

\* C12 witness: the store grew twice and was then asked for a smaller capacity.
C12_Witness ==
    /\ Len(hist) >= 3
    /\ last_op.op = "increase_capacity"
    /\ last_op.arg < gens_capacity

\* C13: between operations G_vec and H_vec both have exactly gens_capacity elements.
C13_LengthInvariant ==
    /\ Len(G_vec) = gens_capacity
    /\ Len(H_vec) = gens_capacity

\* C13 witness: a store that grew from a non-empty one holds two or more elements.
C13_Witness ==
    /\ Len(hist) >= 2
    /\ hist[1] >= 1
    /\ gens_capacity >= 2
    /\ last_op.op = "increase_capacity"

\* C15: the store new(initial_capacity) returns has gens_capacity = initial_capacity
\* and holds the first initial_capacity elements of each family's chain; new(0) is
\* the empty store with capacity 0.
C15_Construction ==
    last_op.op = "new" =>
        /\ gens_capacity = last_op.arg
        /\ G_vec = FreshStream(Label_G, last_op.arg)
        /\ H_vec = FreshStream(Label_H, last_op.arg)
        /\ last_op.arg = 0 => Gens = EmptyGens
        /\ hist = <<last_op.arg>>

\* C15 witness: a store just made by new with a capacity of two or more.
C15_Witness ==
    /\ last_op.op = "new"
    /\ last_op.arg >= 2
    /\ Len(G_vec) >= 2
    /\ Len(H_vec) >= 2

(* --------------------------- publish ordering -------------------------- *)

\* C14: inside a growing increase_capacity(target) G_vec is extended first, H_vec
\* second, and gens_capacity is written to target only after both; at every
\* statement boundary gens_capacity <= Len(G_vec) and gens_capacity <= Len(H_vec).
C14_PublishOrdering ==
    /\ gens_capacity <= Len(G_vec)
    /\ gens_capacity <= Len(H_vec)
    /\ inc.pc = "idle" => Len(G_vec) = gens_capacity /\ Len(H_vec) = gens_capacity
    /\ inc.pc # "idle" =>
          /\ gens_capacity = inc.before.gens_capacity
          /\ gens_capacity < inc.new_capacity
    /\ inc.pc = "extend_G" => G_vec = inc.before.G_vec /\ H_vec = inc.before.H_vec
    /\ inc.pc = "extend_H" =>
          /\ Len(G_vec) = inc.new_capacity
          /\ H_vec = inc.before.H_vec
    /\ inc.pc = "set_capacity" =>
          /\ Len(G_vec) = inc.new_capacity
          /\ Len(H_vec) = inc.new_capacity

\* C14 witness: a growth of a non-empty store has extended both vectors and has not
\* yet written the capacity.
C14_Witness ==
    /\ inc.pc = "set_capacity"
    /\ inc.before.gens_capacity >= 1
    /\ Len(H_vec) > gens_capacity

(* ------------------------ the call, loop by loop ----------------------- *)

\* The last loop-by-loop call has returned.
Returned == call.pc = "idle" /\ last_op.op = "increase_capacity"

\* C16: every call increase_capacity(target) that was entered returns; when it has
\* returned, gens_capacity is the larger of the capacity at entry and target, the loop
\* of fast_forward ran exactly as many times as the capacity at entry, for each family,
\* and exactly target - capacity elements were drawn for each family (none, and no
\* loop iteration, when target was not above the capacity).
C16_CallCompletes ==
    /\ (call.pc # "idle") ~> (call.pc = "idle")
    /\ [](call.pc \in {"ff_G", "ff_H"} => call.i <= call.old_capacity)
    /\ [](Returned =>
            /\ gens_capacity = Max(call.old_capacity, call.new_capacity)
            /\ IF call.new_capacity > call.old_capacity
               THEN /\ call.ff_G = call.old_capacity
                    /\ call.ff_H = call.old_capacity
                    /\ call.drawn_G = call.new_capacity - call.old_capacity
                    /\ call.drawn_H = call.new_capacity - call.old_capacity
                    /\ Gens = IncreaseCapacityOp(
                                  [gens_capacity |-> call.old_capacity,
                                   G_vec |-> SubSeq(G_vec, 1, call.old_capacity),
                                   H_vec |-> SubSeq(H_vec, 1, call.old_capacity)],
                                  call.new_capacity)
               ELSE /\ call.ff_G = 0 /\ call.ff_H = 0
                    /\ call.drawn_G = 0 /\ call.drawn_H = 0)

\* C16 witness: a call that grew a store of capacity 1 or more by 2 or more has returned.
C16_Witness ==
    /\ Returned
    /\ call.old_capacity >= 1
    /\ call.new_capacity >= call.old_capacity + 2
    /\ gens_capacity = call.new_capacity

\* C19: new_capacity - gens_capacity is evaluated only in a call with
\* new_capacity > gens_capacity, so its value is positive (no underflow); Take's count
\* never goes below 0; the number of elements appended to G_vec and to H_vec in one
\* call is that value, the same for both, and positive whenever anything is appended.
C19_NoUnderflow ==
    /\ call.take_n >= 0
    /\ call.pc # "idle" => call.new_capacity > gens_capacity
    /\ call.sub_G # 0 => call.sub_G = call.new_capacity - call.old_capacity /\ call.sub_G > 0
    /\ call.sub_H # 0 => call.sub_H = call.new_capacity - call.old_capacity /\ call.sub_H > 0
    /\ call.pc \in {"take_G", "ff_H", "take_H", "set_capacity"} => call.sub_G > 0
    /\ call.pc \in {"take_H", "set_capacity"} => call.sub_H > 0
    /\ call.pc = "take_G" => call.drawn_G + call.take_n = call.sub_G
    /\ call.pc = "take_H" => call.drawn_H + call.take_n = call.sub_H
    /\ call.drawn_G <= call.sub_G
    /\ call.drawn_H <= call.sub_H
    /\ Returned =>
          /\ call.drawn_G = call.sub_G
          /\ call.drawn_H = call.sub_H
          /\ call.drawn_G = call.drawn_H
          /\ call.drawn_G = Max(call.new_capacity - call.old_capacity, 0)
          /\ Len(G_vec) = call.old_capacity + call.drawn_G
          /\ Len(H_vec) = call.old_capacity + call.drawn_H

\* C19 witness: elements are being appended to H_vec after the same number was
\* appended to G_vec, in a call on a non-empty store.
C19_Witness ==
    /\ call.pc = "take_H"
    /\ call.old_capacity >= 1
    /\ call.drawn_H >= 1
    /\ call.drawn_G = call.sub_G
    /\ call.sub_G >= 2

(* ------------------------- cursors and bounds -------------------------- *)

\* C17: in every state a chain can be in after any number of next() and fast_forward
\* calls, the following next() returns Some(point), the point mapped from the 64 bytes
\* at the cursor, and moves the cursor on by exactly those 64 bytes: one ordinal.
C17_StreamNeverEnds ==
    \A c \in ChainIds :
        chains[c].status = "live" =>
            LET rd == chains[c].chain.reader
                r  == Chain_next(chains[c].chain) IN
            /\ rd.pos = UniformBytesLen * chains[c].ord
            /\ chains[c].ord = Len(chains[c].out) + chains[c].skipped
            /\ r.result = "Some"
            /\ r.item = FromUniformBytes(XofBytes(rd.seed, rd.pos, UniformBytesLen))
            /\ r.chain.reader.seed = rd.seed
            /\ r.chain.reader.pos = rd.pos + UniformBytesLen
            /\ \A k \in 1 .. Len(chains[c].out) :
                   chains[c].out[k].item =
                       FromUniformBytes(XofBytes(rd.seed,
                                                 UniformBytesLen * chains[c].out[k].ord,
                                                 UniformBytesLen))

\* C17 witness: a chain that was fast-forwarded and asked for elements, in turn, has
\* returned two elements.
C17_Witness ==
    \E c \in ChainIds :
        /\ chains[c].status = "live"
        /\ chains[c].skipped >= 1
        /\ Len(chains[c].out) >= 2
        /\ chains[c].out[1].ord = 0

\* C18: a view's cursor stays within 0 .. n, so n - gen_idx in size_hint is never
\* negative; once gen_idx = n, a further next() reports the end and leaves gen_idx and
\* what the view has returned as they are.
C18_CursorWithinBound ==
    /\ [](\A v \in ViewIds :
             /\ 0 <= views[v].iter.gen_idx
             /\ views[v].iter.gen_idx <= views[v].iter.n
             /\ GensIter_size_hint(views[v].iter) >= 0
             /\ views[v].status = "end" => views[v].iter.gen_idx = views[v].iter.n)
    /\ [](last_op.op = "size_hint" => last_op.arg >= 0)
    /\ [][ \A v \in ViewIds :
             ( /\ views[v].status \in {"live", "end"}
               /\ views[v].iter.gen_idx = views[v].iter.n
               /\ views'[v].status # "none" ) =>
                 /\ views'[v].iter = views[v].iter
                 /\ views'[v].out = views[v].out
                 /\ views'[v].status \in {"live", "end"}
                 /\ views'[v] # views[v] => views'[v].status = "end"
       ]_vars

\* C18 witness: size_hint was called on a view of one or more elements that had
\* reported its end, and gave 0.
C18_Witness ==
    \E v \in ViewIds :
        /\ views[v].status = "end"
        /\ views[v].iter.n >= 1
        /\ views[v].iter.gen_idx = views[v].iter.n
        /\ last_op.op = "size_hint"
        /\ last_op.arg = 0

====
